---- MODULE Spec2Model ----
(***************************************************************************)
(* A model of src/app.py, a single-page stock dashboard: the data fetch    *)
(* (get_stock_data), the historical growth estimator                       *)
(* (calculate_historical_cagr), the support/resistance detector            *)
(* (calculate_sr_levels), the PE and DCF valuation block and the page      *)
(* script that strings them together.                                      *)
(*                                                                         *)
(* Numbers.  Prices are integers (ticks).  A mean is kept as the exact     *)
(* fraction [num, den] the code divides (sum / len); the tolerance is a    *)
(* whole number of percent over SensDen.  Floating-point rounding is not   *)
(* represented.                                                            *)
(***************************************************************************)
EXTENDS Integers, Sequences, FiniteSets, TLC

VARIABLES
    df,             \* calculate_sr_levels: the bars passed in
    sensitivity,    \* calculate_sr_levels: the merge tolerance, in percent
    levels,         \* calculate_sr_levels: the sorted candidate list
    sr_result,      \* calculate_sr_levels: the returned list
    sr_pc,          \* "call" before the call, "done" after it
    financials,     \* calculate_historical_cagr: the table passed in, or None
    metrics,        \* calculate_historical_cagr: the returned dict
    cagr_pc,        \* "call" before the call, "done" after it
    cache,          \* get_stock_data: st.cache_data's entries, symbol -> result
    provider,       \* get_stock_data: what the data provider did at the last call
    fetched,        \* get_stock_data: the (hist, info, financials) returned
    from_cache,     \* get_stock_data: the last call was answered from the cache
    fetch_pc,       \* "idle" before the first call, "done" after a call
    user_growth,            \* the growth input, in half percents
    user_eps,               \* the EPS input, in units of 0.05
    user_discount_rate,     \* the WACC slider, in half percents
    user_terminal_growth,   \* the terminal growth slider, in half percents
    pe_scenarios,           \* label -> PE multiple, in thousandths
    target_price,           \* label -> EPS * multiple (units of 0.05/1000)
    dcf_value,              \* [raised, value]: the DCF result, in thousandths
    avg_fair,               \* the combined reference price, in thousandths
    val_pc,                 \* "call" before the valuation block, "done" after it
    ticker,         \* page: the symbol typed in the sidebar
    hist,           \* page: the price history returned by get_stock_data
    info,           \* page: the fundamentals record returned by get_stock_data
    curr_price,     \* page: hist['Close'].iloc[-1]
    prev_close,     \* page: hist['Close'].iloc[-2]
    cagr_data,      \* page: calculate_historical_cagr(financials)
    analyst_growth, \* page: in half percents
    default_growth, \* page: in half percents
    sr_data,        \* page: calculate_sr_levels(hist, sensitivity=0.02)
    supports,       \* page: the levels below curr_price, nearest first
    resistances,    \* page: the levels above curr_price, nearest first
    exc,            \* page: the exception that ended the script, or "none"
    page_pc         \* page: the script's position

srVars == <<df, sensitivity, levels, sr_result, sr_pc>>
cagrVars == <<financials, metrics, cagr_pc>>
fetchVars == <<cache, provider, fetched, from_cache, fetch_pc>>
valInputs == <<user_growth, user_eps, user_discount_rate, user_terminal_growth>>
valOutputs == <<pe_scenarios, target_price, dcf_value, avg_fair>>
valVars == <<valInputs, valOutputs, val_pc>>

pageVars == <<ticker, hist, info, curr_price, prev_close, cagr_data, analyst_growth,
              default_growth, sr_data, supports, resistances, exc, page_pc>>

vars == <<srVars, cagrVars, fetchVars, valVars, pageVars>>

Abs(x) == IF x < 0 THEN -x ELSE x

(***************************************************************************)
(* Bounds of the inputs.                                                   *)
(***************************************************************************)
MaxBars == 8
PriceBase == 100
TrendStep == 3
WideSensitivityPct == 5

\* sensitivity=0.02, the default of calculate_sr_levels and the page's argument
DefaultSensitivityPct == 2
SensDen == 100

\* A bar's (Low, High) offsets from the trend line; Low <= High in each.
BarShapes == {<<0, 2>>, <<1, 1>>, <<-1, 1>>}
\* Per-bar drift of the trend line: flat, slowly rising, rising faster than
\* any shape can undo (lows and highs then strictly increase).
Trends == {0, 1, TrendStep}
Sensitivities == {0, DefaultSensitivityPct, WideSensitivityPct}

BarsOf(trend, shapes) ==
    [i \in 1..Len(shapes) |->
        [Low  |-> PriceBase + trend * (i - 1) + shapes[i][1],
         High |-> PriceBase + trend * (i - 1) + shapes[i][2]]]

(***************************************************************************)
(* calculate_sr_levels (src/app.py 107-131).  Python index i is TLA+ index *)
(* i + 1: range(2, len(df) - 2) is 3 .. Len(df) - 2.                       *)
(***************************************************************************)
IsSupport_nonstrict(d, i) ==
    /\ d[i].Low <= d[i-1].Low
    /\ d[i].Low <= d[i+1].Low
    /\ d[i].Low <= d[i-2].Low
    /\ d[i].Low <= d[i+2].Low

IsSupport(d, i) ==
    /\ d[i].Low < d[i-1].Low
    /\ d[i].Low < d[i+1].Low
    /\ d[i].Low < d[i-2].Low
    /\ d[i].Low < d[i+2].Low

IsResistance(d, i) ==
    /\ d[i].High > d[i-1].High
    /\ d[i].High > d[i+1].High
    /\ d[i].High > d[i-2].High
    /\ d[i].High > d[i+2].High

\* levels.append((price, 1)) for a support, (price, 2) for a resistance
RECURSIVE ScanFrom(_, _)
ScanFrom(d, i) ==
    IF i > Len(d) - 2 THEN <<>>
    ELSE (IF IsSupport(d, i) THEN << <<d[i].Low, 1>> >> ELSE <<>>)
         \o (IF IsResistance(d, i) THEN << <<d[i].High, 2>> >> ELSE <<>>)
         \o ScanFrom(d, i + 1)

ScanExtrema(d) == ScanFrom(d, 3)

\* levels.sort(key=lambda x: x[0]): a stable sort on the price alone
RECURSIVE InsertByPrice(_, _)
InsertByPrice(s, x) ==
    IF s = <<>> THEN <<x>>
    ELSE IF Head(s)[1] <= x[1] THEN <<Head(s)>> \o InsertByPrice(Tail(s), x)
    ELSE <<x>> \o s

SortByPrice_unsorted(s) == s

RECURSIVE SortByPrice(_)
SortByPrice(s) ==
    IF s = <<>> THEN <<>>
    ELSE InsertByPrice(SortByPrice(SubSeq(s, 1, Len(s) - 1)), s[Len(s)])

RECURSIVE SumPrices(_)
SumPrices(c) == IF c = <<>> THEN 0 ELSE Head(c)[1] + SumPrices(Tail(c))

\* avg = sum(x[0] for x in curr)/len(curr)
Avg(c) == [num |-> SumPrices(c), den |-> Len(c)]

WithinTolerance_strict(x, avg, sens) ==
    Abs(x * avg.den - avg.num) * SensDen < sens * avg.num

\* abs(levels[i][0] - avg)/avg <= sensitivity, for avg = num/den > 0:
\* |x*den - num| / num <= sens / SensDen
WithinTolerance(x, avg, sens) ==
    Abs(x * avg.den - avg.num) * SensDen <= sens * avg.num

\* lines 124-125: the candidate is compared with the running mean of curr
Joins(x, curr, sens) == WithinTolerance(x, Avg(curr), sens)

\* line 128: merged.append({'price': avg, 'strength': len(curr)})
ClosedLevel(curr) == [price |-> Avg(curr), strength |-> Len(curr)]

FinalLevel_stale(curr) ==
    [price |-> IF Len(curr) > 1 THEN Avg(SubSeq(curr, 1, Len(curr) - 1)) ELSE Avg(curr),
     strength |-> Len(curr)]

\* line 130: merged.append({'price': sum(...)/len(curr), 'strength': len(curr)})
FinalLevel(curr) == [price |-> Avg(curr), strength |-> Len(curr)]

RECURSIVE MergeFrom(_, _, _, _)
MergeFrom(lv, i, curr, sens) ==
    IF i > Len(lv) THEN <<FinalLevel(curr)>>
    ELSE IF Joins(lv[i][1], curr, sens)
         THEN MergeFrom(lv, i + 1, Append(curr, lv[i]), sens)
         ELSE <<ClosedLevel(curr)>> \o MergeFrom(lv, i + 1, <<lv[i]>>, sens)

MergeLevels(lv, sens) ==
    IF lv = <<>> THEN <<>> ELSE MergeFrom(lv, 2, <<lv[1]>>, sens)

calculate_sr_levels(d, sens) == MergeLevels(SortByPrice(ScanExtrema(d)), sens)

(***************************************************************************)
(* calculate_historical_cagr (src/app.py 76-105).  The argument is a       *)
(* record [none, columns, rows, sortable]: whether it is None, the column  *)
(* labels in the order received, the rows present (row name -> column      *)
(* label -> value), and whether sort_index can order the labels (it raises *)
(* on labels that do not compare).  A growth rate is kept as its whole     *)
(* percent, rounded down.                                                  *)
(***************************************************************************)
MaxCols == 3
EpsValues == {-1, 0, 1, 2}
RowNames == {"Diluted EPS", "Total Revenue", "Total Income"}

\* line 84: if len(cols) >= 3
MinColumns == 3

RECURSIVE Pow(_, _)
Pow(b, n) == IF n = 0 THEN 1 ELSE b * Pow(b, n - 1)

\* The largest k in lo..hi with (1 + k/100)^n <= e/s, for s > 0 and e > 0,
\* given that lo is such a k.
RECURSIVE CagrBetween(_, _, _, _, _)
CagrBetween(lo, hi, s, e, n) ==
    IF lo >= hi THEN lo
    ELSE LET mid == (lo + hi + 1) \div 2 IN
         IF Pow(100 + mid, n) * s <= e * Pow(100, n)
         THEN CagrBetween(mid, hi, s, e, n)
         ELSE CagrBetween(lo, mid - 1, s, e, n)

\* ((e/s)**(1/num_years) - 1) * 100, rounded down to a whole percent; the rate
\* is at least -100 and, for num_years >= 1, at most 100 * e/s - 100.
CagrPct(s, e, n) ==
    CagrBetween(-100, IF e > s THEN (100 * e) \div s - 100 ELSE 0, s, e, n)

SortColsDesc_ascending(cols) ==
    LET RECURSIVE Ins(_, _)
        Ins(t, x) == IF t = <<>> THEN <<x>>
                     ELSE IF Head(t) <= x THEN <<Head(t)>> \o Ins(Tail(t), x)
                     ELSE <<x>> \o t
        RECURSIVE Srt(_)
        Srt(t) == IF t = <<>> THEN <<>> ELSE Ins(Srt(Tail(t)), Head(t))
    IN  Srt(cols)

\* line 82: financials.sort_index(axis=1, ascending=False)
SortColsDesc(cols) ==
    LET RECURSIVE Ins(_, _)
        Ins(t, x) == IF t = <<>> THEN <<x>>
                     ELSE IF Head(t) >= x THEN <<Head(t)>> \o Ins(Tail(t), x)
                     ELSE <<x>> \o t
        RECURSIVE Srt(_)
        Srt(t) == IF t = <<>> THEN <<>> ELSE Ins(Srt(Tail(t)), Head(t))
    IN  Srt(cols)

\* DataFrame.empty: no columns or no rows
IsEmpty(fin) == Len(fin.columns) = 0 \/ DOMAIN fin.rows = {}

\* lines 91-94 and 100-103: the rate of one row, 0 unless both endpoints are > 0
RowCagr(row, oldest, latest, num_years) ==
    LET s == row[oldest]
        e == row[latest]
    IN  IF s > 0 /\ e > 0 THEN CagrPct(s, e, num_years) ELSE 0

\* lines 90-94; a missing 'Diluted EPS' row raises KeyError, which is swallowed
EpsCagr(fin, oldest, latest, num_years) ==
    IF "Diluted EPS" \in DOMAIN fin.rows
    THEN RowCagr(fin.rows["Diluted EPS"], oldest, latest, num_years)
    ELSE 0

\* lines 97-103
RevCagr(fin, oldest, latest, num_years) ==
    LET rev_key == IF "Total Revenue" \in DOMAIN fin.rows
                   THEN "Total Revenue" ELSE "Total Income"
    IN  IF rev_key \in DOMAIN fin.rows
        THEN RowCagr(fin.rows[rev_key], oldest, latest, num_years)
        ELSE 0

DefaultMetrics == [eps_cagr |-> 0, rev_cagr |-> 0, years |-> 0]

calculate_historical_cagr(fin) ==
    IF fin.none THEN DefaultMetrics
    ELSE IF IsEmpty(fin) THEN DefaultMetrics
    ELSE IF ~fin.sortable THEN DefaultMetrics    \* line 104: except: pass
    ELSE LET cols == SortColsDesc(fin.columns) IN
         IF Len(cols) >= MinColumns
         THEN LET latest == cols[1]
                  oldest == cols[Len(cols)]
                  num_years == Len(cols) - 1
              IN  [eps_cagr |-> EpsCagr(fin, oldest, latest, num_years),
                   rev_cagr |-> RevCagr(fin, oldest, latest, num_years),
                   years |-> num_years]
         ELSE DefaultMetrics

\* The column labels 1..k (years) in any order.
ColumnOrders(k) ==
    {c \in [1..k -> 1..k] : \A i, j \in 1..k : i # j => c[i] # c[j]}

\* Two revenue histories: rising, and falling through zero.
RevRows(k) == {[l \in 1..k |-> l], [l \in 1..k |-> 2 - l]}

\* The value rows a table over columns 1..k can hold for row name r when its
\* rows are I: every EPS history over EpsValues, either revenue history.
RowChoices(r, I, k) ==
    IF r \notin I THEN {<<>>}
    ELSE IF r = "Diluted EPS" THEN [1..k -> EpsValues]
    ELSE RevRows(k)

Table(c, I, eps, tr, ti, b) ==
    [none |-> FALSE,
     columns |-> c,
     rows |-> [r \in I |->
                  IF r = "Diluted EPS" THEN eps
                  ELSE IF r = "Total Revenue" THEN tr ELSE ti],
     sortable |-> b]

\* financials is None
NoneTable == [none |-> TRUE, columns |-> <<>>, rows |-> <<>>, sortable |-> TRUE]

IdleCagr ==
    /\ financials = NoneTable
    /\ metrics = "none"
    /\ cagr_pc = "idle"

(***************************************************************************)
(* get_stock_data (src/app.py 61-74).  The provider's behaviour at a call  *)
(* is [history_fails, info_fails, income_fails, hist, info, financials]:   *)
(* which of stock.history, stock.info and stock.income_stmt raise, and     *)
(* what each returns when it does not.  A price history is a sequence of   *)
(* bars [Low, High, Close]; a fundamentals record is a function from the   *)
(* keys present to their values.  earningsGrowth is kept as the percentage *)
(* it stands for, in half percents (30 is 0.15); trailingEps in units of   *)
(* 0.05 (40 is 2.00).                                                      *)
(***************************************************************************)
Symbols == {"AAPL"}

\* A two-year history, cut to its first n rows to give shorter ones.
SampleHist ==
    << [Low |-> 101, High |-> 101, Close |-> 101],
       [Low |-> 101, High |-> 101, Close |-> 101],
       [Low |-> 100, High |-> 102, Close |-> 101],
       [Low |-> 101, High |-> 101, Close |-> 101],
       [Low |-> 101, High |-> 101, Close |-> 101],
       [Low |-> 99,  High |-> 105, Close |-> 103],
       [Low |-> 101, High |-> 103, Close |-> 102],
       [Low |-> 101, High |-> 103, Close |-> 102] >>

ProviderHists == {SubSeq(SampleHist, 1, n) : n \in 0..Len(SampleHist)}

ProviderInfos ==
    { <<>>,
      [k \in {"trailingEps"} |-> 40],
      [k \in {"earningsGrowth", "trailingEps"} |-> IF k = "earningsGrowth" THEN 30 ELSE 40],
      [k \in {"earningsGrowth", "trailingEps"} |-> IF k = "earningsGrowth" THEN 0 ELSE -20],
      [k \in {"earningsGrowth"} |-> -10] }

\* pd.DataFrame()
EmptyDataFrame == [none |-> FALSE, columns |-> <<>>, rows |-> <<>>, sortable |-> TRUE]

ProviderFinancials ==
    { EmptyDataFrame,
      [none |-> FALSE, columns |-> <<3, 2, 1>>,
       rows |-> [r \in {"Diluted EPS", "Total Revenue"} |->
                    IF r = "Diluted EPS" THEN <<1, 1, 2>> ELSE <<1, 2, 3>>],
       sortable |-> TRUE],
      [none |-> FALSE, columns |-> <<3, 2, 1>>,
       rows |-> [r \in {"Diluted EPS"} |-> <<2, 1, -1>>],
       sortable |-> TRUE] }

Providers ==
    [history_fails : BOOLEAN, info_fails : BOOLEAN, income_fails : BOOLEAN,
     hist : ProviderHists, info : ProviderInfos, financials : ProviderFinancials]

NoneHist == [none |-> TRUE, bars |-> <<>>]
NoneInfo == [none |-> TRUE, fields |-> <<>>]
SomeHist(b) == [none |-> FALSE, bars |-> b]
SomeInfo(f) == [none |-> FALSE, fields |-> f]

\* lines 63-74, the function body without the cache
get_stock_data(p) ==
    IF p.history_fails
    THEN \* line 74: return None, None, None
         [hist |-> NoneHist, info |-> NoneInfo, financials |-> NoneTable]
    ELSE IF p.info_fails \/ p.income_fails
         THEN \* lines 69-71: info = {}; financials = pd.DataFrame()
              [hist |-> SomeHist(p.hist), info |-> SomeInfo(<<>>),
               financials |-> EmptyDataFrame]
         ELSE [hist |-> SomeHist(p.hist), info |-> SomeInfo(p.info),
               financials |-> p.financials]

IdleFetch ==
    /\ cache = <<>>
    /\ provider = "none"
    /\ fetched = "none"
    /\ from_cache = FALSE
    /\ fetch_pc = "idle"

(***************************************************************************)
(* The valuation block of the page (src/app.py 205-225, 241-242, 278).     *)
(* Percentages are in half percents (the sliders' step), EPS in units of   *)
(* 0.05 (the input's step), PE multiples and the DCF's money amounts in    *)
(* thousandths; each DCF step is rounded down to a thousandth.             *)
(***************************************************************************)
\* st.slider("折现率 WACC (%)", 5.0, 15.0, 9.0, 0.5)
DiscountRateMin == 5
DiscountRateMax == 15
\* st.slider("永续增长率 (%)", 1.0, 5.0, 3.0, 0.5)
TerminalGrowthMin == 1
TerminalGrowthMax == 5

DiscountRates == (2 * DiscountRateMin)..(2 * DiscountRateMax)
TerminalGrowths == (2 * TerminalGrowthMin)..(2 * TerminalGrowthMax)

HighGrowthThreshold_20 == 20

\* line 210: if user_growth > 25
HighGrowthThreshold == 25

\* for i in range(1, 6)
DcfYears == 5

Max(a, b) == IF a >= b THEN a ELSE b

\* lines 209-210, in thousandths: 8.5 + 2 * growth, or growth * 1.5
base_pe_multiplier(growth) ==
    IF growth > 2 * HighGrowthThreshold
    THEN 750 * growth
    ELSE 8500 + 1000 * growth

\* lines 212-216
PeScenarios(growth) ==
    LET base == base_pe_multiplier(growth) IN
    [label \in {"Bear", "Base", "Bull"} |->
        IF label = "Bear" THEN Max(10000, (base * 8) \div 10)
        ELSE IF label = "Base" THEN base
        ELSE (base * 12) \div 10]

\* line 242: target_price = user_eps * data['pe']
TargetPrices(eps, scenarios) ==
    [label \in DOMAIN scenarios |-> eps * scenarios[label]]

\* temp_eps after i rounds of line 222, in thousandths
RECURSIVE GrownEps(_, _, _)
GrownEps(eps, growth, i) ==
    IF i = 0 THEN eps * 50
    ELSE (GrownEps(eps, growth, i - 1) * (200 + growth)) \div 200

\* x / (1 + user_discount_rate/100)**i
RECURSIVE Discounted(_, _, _)
Discounted(x, rate, i) ==
    IF i = 0 THEN x ELSE (Discounted(x, rate, i - 1) * 200) \div (200 + rate)

\* lines 221-223: sum(dcf_flows)
RECURSIVE SumFlows(_, _, _, _)
SumFlows(eps, growth, rate, i) ==
    IF i = 0 THEN 0
    ELSE SumFlows(eps, growth, rate, i - 1)
         + Discounted(GrownEps(eps, growth, i), rate, i)

TermDenominator_clamped(rate, terminal) ==
    IF rate - terminal < 1 THEN 1 ELSE rate - terminal

\* line 224's divisor (user_discount_rate - user_terminal_growth)/100, in
\* half percents
TermDenominator(rate, terminal) == rate - terminal

\* lines 219-225.  The operands are Python floats, so a zero divisor raises
\* ZeroDivisionError.
Dcf(eps, growth, rate, terminal) ==
    IF TermDenominator(rate, terminal) = 0
    THEN [raised |-> TRUE, value |-> 0]
    ELSE LET temp_eps == GrownEps(eps, growth, DcfYears)
             term_val == (temp_eps * (200 + terminal))
                            \div TermDenominator(rate, terminal)
         IN  [raised |-> FALSE,
              value |-> SumFlows(eps, growth, rate, DcfYears)
                        + Discounted(term_val, rate, DcfYears)]

\* line 278: (pe_scenarios['中性 (Base)']['pe'] * user_eps + dcf_value) / 2
AvgFair(eps, scenarios, dcf) ==
    ((scenarios["Base"] * eps) \div 20 + dcf.value) \div 2

MaxGrowth == 64
MaxDecline == 10
GrowthInputs == (-MaxDecline)..MaxGrowth
EpsInputs == {-20, 0, 20, 40}

IdleVal ==
    /\ user_growth = 0
    /\ user_eps = 0
    /\ user_discount_rate = 0
    /\ user_terminal_growth = 0
    /\ pe_scenarios = <<>>
    /\ target_price = <<>>
    /\ dcf_value = [raised |-> FALSE, value |-> 0]
    /\ avg_fair = 0
    /\ val_pc = "idle"

\* Lines 209-279 for the given inputs: the PE scenarios, the DCF, and, unless
\* the DCF raised, the target prices and the combined reference price.
ValuationBlock(growth, eps, rate, terminal) ==
    LET scenarios == PeScenarios(growth)
        dcf == Dcf(eps, growth, rate, terminal)
    IN  /\ pe_scenarios' = scenarios
        /\ dcf_value' = dcf
        /\ target_price' = IF dcf.raised THEN <<>> ELSE TargetPrices(eps, scenarios)
        /\ avg_fair' = IF dcf.raised THEN 0 ELSE AvgFair(eps, scenarios, dcf)

(***************************************************************************)
(* The page script (src/app.py 135-351): the helpers of its steps.  Text   *)
(* formatting, colours and the chart are not represented.                  *)
(***************************************************************************)
Tickers == {"", "AAPL"}

\* line 160: info.get('earningsGrowth', 0) * 100 if info.get('earningsGrowth') else 0
AnalystGrowth(fields) ==
    IF "earningsGrowth" \in DOMAIN fields /\ fields["earningsGrowth"] # 0
    THEN fields["earningsGrowth"]
    ELSE 0

\* line 161; the fallback 10.0 and the whole-percent CAGR in half percents
DefaultGrowth(analyst, hist_eps_cagr) ==
    IF analyst > 0 THEN analyst
    ELSE IF hist_eps_cagr > 0 THEN 2 * hist_eps_cagr ELSE 20

\* line 202: float(info.get('trailingEps', 1.0))
DefaultEps(fields) ==
    IF "trailingEps" \in DOMAIN fields THEN fields["trailingEps"] ELSE 20

\* What the user may have typed over the two defaults.
GrowthOverrides == {0, 60}
EpsOverrides == {-20}

PriceBelow(level, price) == level.price.num < price * level.price.den
PriceAbove(level, price) == level.price.num > price * level.price.den
PriceLeq(a, b) == a.price.num * b.price.den <= b.price.num * a.price.den

\* sorted(items, key=lambda x: x['price']): stable, ascending
RECURSIVE SortedAscending(_)
SortedAscending(s) ==
    LET RECURSIVE Ins(_, _)
        Ins(t, x) == IF t = <<>> THEN <<x>>
                     ELSE IF PriceLeq(Head(t), x) THEN <<Head(t)>> \o Ins(Tail(t), x)
                     ELSE <<x>> \o t
    IN  IF s = <<>> THEN <<>>
        ELSE Ins(SortedAscending(SubSeq(s, 1, Len(s) - 1)), s[Len(s)])

\* sorted(items, key=lambda x: x['price'], reverse=True): stable, descending
RECURSIVE SortedDescending(_)
SortedDescending(s) ==
    LET RECURSIVE Ins(_, _)
        Ins(t, x) == IF t = <<>> THEN <<x>>
                     ELSE IF PriceLeq(x, Head(t)) THEN <<Head(t)>> \o Ins(Tail(t), x)
                     ELSE <<x>> \o t
    IN  IF s = <<>> THEN <<>>
        ELSE Ins(SortedDescending(SubSeq(s, 1, Len(s) - 1)), s[Len(s)])

\* line 289
Supports(data, price) ==
    LET Below(x) == PriceBelow(x, price) IN SortedDescending(SelectSeq(data, Below))

\* line 290
Resistances(data, price) ==
    LET Above(x) == PriceAbove(x, price) IN SortedAscending(SelectSeq(data, Above))

IdlePage ==
    /\ ticker = ""
    /\ hist = NoneHist
    /\ info = NoneInfo
    /\ curr_price = 0
    /\ prev_close = 0
    /\ cagr_data = DefaultMetrics
    /\ analyst_growth = 0
    /\ default_growth = 0
    /\ sr_data = <<>>
    /\ supports = <<>>
    /\ resistances = <<>>
    /\ exc = "none"
    /\ page_pc = "idle"

(***************************************************************************)
(* SpecSR: calculate_sr_levels applied to every bounded bar sequence.      *)
(***************************************************************************)
InitSR ==
    /\ \E n \in 0..MaxBars :
         \E shapes \in [1..n -> BarShapes] :
           \E trend \in Trends :
             df = BarsOf(trend, shapes)
    /\ sensitivity \in Sensitivities
    /\ levels = <<>>
    /\ sr_result = <<>>
    /\ sr_pc = "call"
    /\ IdleCagr
    /\ IdleFetch
    /\ IdleVal
    /\ IdlePage

CallSrLevels ==
    /\ sr_pc = "call"
    /\ levels' = SortByPrice(ScanExtrema(df))
    /\ sr_result' = calculate_sr_levels(df, sensitivity)
    /\ sr_pc' = "done"
    /\ UNCHANGED <<df, sensitivity>>
    /\ UNCHANGED <<cagrVars, fetchVars, valVars, pageVars>>

NextSR == CallSrLevels

SpecSR == InitSR /\ [][NextSR]_vars

(***************************************************************************)
(* Properties of calculate_sr_levels, checked under SpecSR.                *)
(***************************************************************************)
SrDone == sr_pc = "done"

\* No index 2..n-3 (here 3..Len-2) holds a strict local low or high.
NoStrictExtremum(d) ==
    \A i \in 3..(Len(d) - 2) :
        /\ \E j \in {i-2, i-1, i+1, i+2} : d[j].Low <= d[i].Low
        /\ \E j \in {i-2, i-1, i+1, i+2} : d[j].High >= d[i].High

StrictlyIncreasing(d) ==
    \A i \in 1..(Len(d) - 1) : d[i].Low < d[i+1].Low /\ d[i].High < d[i+1].High

\* C1: a bar sequence without a strict local extremum at any index 2..n-3, in
\* particular one of fewer than 5 bars or one whose lows and highs strictly
\* increase, makes calculate_sr_levels return the empty list.
C1_NoExtremumReturnsEmpty ==
    SrDone =>
        /\ NoStrictExtremum(df) => sr_result = <<>>
        /\ Len(df) < 5 => sr_result = <<>>
        /\ StrictlyIncreasing(df) => sr_result = <<>>

C1_Witness ==
    /\ SrDone
    /\ Len(df) >= 5
    /\ StrictlyIncreasing(df)
    /\ sr_result = <<>>

RECURSIVE StrengthBefore(_, _)
StrengthBefore(m, k) ==
    IF k <= 1 THEN 0 ELSE m[k-1].strength + StrengthBefore(m, k - 1)

RECURSIVE RunSum(_, _, _)
RunSum(lv, from, to) ==
    IF from > to THEN 0 ELSE lv[from][1] + RunSum(lv, from + 1, to)

\* The candidates merged into level k: the k-th consecutive run of the sorted list.
RunOf(m, k) == (StrengthBefore(m, k) + 1)..(StrengthBefore(m, k) + m[k].strength)

SortedByPrice(lv) == \A i \in 1..(Len(lv) - 1) : lv[i][1] <= lv[i+1][1]

\* C2: the emitted levels are the consecutive runs of the price-sorted
\* candidates; each level's price is the mean of its run (price * strength =
\* the run's sum) and its strength the run's length, for the clusters closed
\* in the loop and for the final one.
C2_LevelIsMeanAndCountOfRun ==
    SrDone =>
        /\ SortedByPrice(levels)
        /\ StrengthBefore(sr_result, Len(sr_result) + 1) = Len(levels)
        /\ \A k \in 1..Len(sr_result) :
              LET L == sr_result[k]
                  from == StrengthBefore(sr_result, k) + 1
                  to == StrengthBefore(sr_result, k) + L.strength
              IN  /\ L.strength >= 1
                  /\ L.price.den > 0
                  /\ L.price.num * L.strength = RunSum(levels, from, to) * L.price.den

C2_Witness ==
    /\ SrDone
    /\ Len(sr_result) >= 2
    /\ sr_result[1].strength >= 2
    /\ levels[1][1] # levels[2][1]

DistinctPrices(lv) == \A i, j \in 1..Len(lv) : i # j => lv[i][1] # lv[j][1]

\* C3 as stated: with tolerance 0 the number of levels equals the number of
\* raw extrema candidates, also when two candidates have the same price.
C3_Original ==
    (SrDone /\ sensitivity = 0) => Len(sr_result) = Len(levels)

\* C3 as amended: with tolerance 0, candidates of pairwise distinct prices each
\* become a level of strength 1 (as many levels as raw extrema); candidates of
\* exactly equal price are merged, and the levels are then fewer than the
\* raw extrema.
C3_ZeroToleranceMergesOnlyEqualPrices ==
    (SrDone /\ sensitivity = 0) =>
        /\ DistinctPrices(levels) =>
              /\ Len(sr_result) = Len(levels)
              /\ \A k \in 1..Len(sr_result) : sr_result[k].strength = 1
        /\ ~DistinctPrices(levels) => Len(sr_result) < Len(levels)
        /\ \A k \in 1..Len(sr_result) :
              \A i \in RunOf(sr_result, k) : levels[i][1] = levels[StrengthBefore(sr_result, k) + 1][1]

C3_Witness ==
    /\ SrDone
    /\ sensitivity = 0
    /\ ~DistinctPrices(levels)
    /\ Len(sr_result) < Len(levels)
    /\ \E k \in 1..Len(sr_result) : sr_result[k].strength = 2

\* (q - p) / p > sens / SensDen for the means p, q
GapExceeds(p, q, sens) ==
    (q.num * p.den - p.num * q.den) * SensDen > sens * p.num * q.den

\* |x - p| / p <= sens / SensDen for a candidate price x and a mean p
NearLevel(x, p, sens) == Abs(x * p.den - p.num) * SensDen <= sens * p.num

\* C4 as stated: levels are mutually exclusive bands: two distinct levels have
\* prices p < q with (q - p) / p > tolerance, and no extremum merged into one
\* level lies within the tolerance of another level's price.
C4_Original ==
    SrDone =>
        \A k, m \in 1..Len(sr_result) :
            k < m =>
                /\ GapExceeds(sr_result[k].price, sr_result[m].price, sensitivity)
                /\ \A i \in RunOf(sr_result, m) :
                      ~NearLevel(levels[i][1], sr_result[k].price, sensitivity)
                /\ \A i \in RunOf(sr_result, k) :
                      ~NearLevel(levels[i][1], sr_result[m].price, sensitivity)

\* C4 as amended: two distinct levels have prices p < q with (q - p) / p >
\* tolerance, and no extremum merged into the higher level lies within the
\* tolerance of the lower level's price (an extremum of the lower level may
\* lie within the tolerance of the higher level's price).
C4_LevelsSeparatedUpward ==
    SrDone =>
        \A k, m \in 1..Len(sr_result) :
            k < m =>
                /\ GapExceeds(sr_result[k].price, sr_result[m].price, sensitivity)
                /\ \A i \in RunOf(sr_result, m) :
                      ~NearLevel(levels[i][1], sr_result[k].price, sensitivity)

C4_Witness ==
    /\ SrDone
    /\ sensitivity > 0
    /\ Len(sr_result) >= 2
    /\ \E k \in 1..Len(sr_result) : sr_result[k].strength >= 2
    /\ \E i \in RunOf(sr_result, 1) :
          NearLevel(levels[i][1], sr_result[2].price, sensitivity)

(***************************************************************************)
(* SpecCagr: calculate_historical_cagr applied to None and to every        *)
(* bounded table.                                                          *)
(***************************************************************************)
IdleSR ==
    /\ df = <<>>
    /\ sensitivity = DefaultSensitivityPct
    /\ levels = <<>>
    /\ sr_result = <<>>
    /\ sr_pc = "idle"

InitCagr ==
    /\ \/ financials = NoneTable
       \/ \E k \in 0..MaxCols :
            \E c \in ColumnOrders(k), I \in SUBSET RowNames, b \in BOOLEAN :
              \E eps \in RowChoices("Diluted EPS", I, k),
                 tr \in RowChoices("Total Revenue", I, k),
                 ti \in RowChoices("Total Income", I, k) :
                financials = Table(c, I, eps, tr, ti, b)
    /\ metrics = "none"
    /\ cagr_pc = "call"
    /\ IdleSR
    /\ IdleFetch
    /\ IdleVal
    /\ IdlePage

CallHistoricalCagr ==
    /\ cagr_pc = "call"
    /\ metrics' = calculate_historical_cagr(financials)
    /\ cagr_pc' = "done"
    /\ UNCHANGED financials
    /\ UNCHANGED <<srVars, fetchVars, valVars, pageVars>>

NextCagr == CallHistoricalCagr

SpecCagr == InitCagr /\ [][NextCagr]_vars

(***************************************************************************)
(* Properties of calculate_historical_cagr, checked under SpecCagr.        *)
(***************************************************************************)
CagrDone == cagr_pc = "done"

NCols(fin) == Len(fin.columns)
Labels(fin) == {fin.columns[i] : i \in 1..NCols(fin)}
NewestLabel(fin) == CHOOSE l \in Labels(fin) : \A m \in Labels(fin) : m <= l
OldestLabel(fin) == CHOOSE l \in Labels(fin) : \A m \in Labels(fin) : l <= m

\* The cases in which the claim says eps_cagr stays 0.
EpsNotComputable(fin) ==
    \/ fin.none
    \/ IsEmpty(fin)
    \/ NCols(fin) < 3
    \/ "Diluted EPS" \notin DOMAIN fin.rows
    \/ fin.rows["Diluted EPS"][OldestLabel(fin)] <= 0
    \/ fin.rows["Diluted EPS"][NewestLabel(fin)] <= 0

\* C7 as stated: eps_cagr is 0 for None, an empty table, fewer than 3 columns,
\* a missing 'Diluted EPS' row or an endpoint that is not > 0, and is computed
\* from the oldest and newest columns over (columns - 1) steps otherwise;
\* 'years' is (columns - 1) when there are at least 3 columns and 0 otherwise.
C7_Original ==
    CagrDone =>
        /\ EpsNotComputable(financials) => metrics.eps_cagr = 0
        /\ metrics.years =
              IF ~financials.none /\ NCols(financials) >= 3
              THEN NCols(financials) - 1 ELSE 0

\* The table is there, has a row and a column, and its columns sort.
Usable(fin) == ~fin.none /\ ~IsEmpty(fin) /\ fin.sortable

\* C7 as amended: the same, except that 'years' is (columns - 1) only when the
\* table is not empty (it has at least one row), its column labels can be
\* sorted and it has at least 3 columns, and 0 otherwise; eps_cagr is computed
\* only in that case.
C7_CagrDefaultsAndYears ==
    CagrDone =>
        /\ EpsNotComputable(financials) => metrics.eps_cagr = 0
        /\ metrics.eps_cagr =
              IF Usable(financials) /\ ~EpsNotComputable(financials)
              THEN CagrPct(financials.rows["Diluted EPS"][OldestLabel(financials)],
                           financials.rows["Diluted EPS"][NewestLabel(financials)],
                           NCols(financials) - 1)
              ELSE 0
        /\ metrics.years =
              IF Usable(financials) /\ NCols(financials) >= 3
              THEN NCols(financials) - 1 ELSE 0

C7_Witness ==
    /\ CagrDone
    /\ Usable(financials)
    /\ ~EpsNotComputable(financials)
    /\ financials.columns[1] # NewestLabel(financials)
    /\ metrics.eps_cagr > 0
    /\ metrics.years = NCols(financials) - 1

(***************************************************************************)
(* SpecFetch: calls of get_stock_data under @st.cache_data(ttl=3600).  A   *)
(* call for a symbol with a live entry returns the entry and does not      *)
(* reach the provider; any other call runs the body and stores what it     *)
(* returns (a failure's None, None, None included); an entry expires when  *)
(* its ttl has passed.                                                     *)
(***************************************************************************)
InitFetch ==
    /\ IdleFetch
    /\ IdleSR
    /\ IdleCagr
    /\ IdleVal
    /\ IdlePage

CallGetStockData ==
    \E symbol \in Symbols, p \in Providers :
        /\ symbol \notin DOMAIN cache
        /\ provider' = p
        /\ fetched' = get_stock_data(p)
        /\ cache' = [s \in DOMAIN cache \cup {symbol} |->
                        IF s = symbol THEN get_stock_data(p) ELSE cache[s]]
        /\ from_cache' = FALSE
        /\ fetch_pc' = "done"
        /\ UNCHANGED <<srVars, cagrVars, valVars, pageVars>>

CallGetStockDataCached ==
    \E symbol \in Symbols :
        /\ symbol \in DOMAIN cache
        /\ fetched' = cache[symbol]
        /\ from_cache' = TRUE
        /\ fetch_pc' = "done"
        /\ UNCHANGED <<cache, provider>>
        /\ UNCHANGED <<srVars, cagrVars, valVars, pageVars>>

CacheExpire ==
    \E symbol \in DOMAIN cache :
        /\ cache' = [s \in DOMAIN cache \ {symbol} |-> cache[s]]
        /\ UNCHANGED <<provider, fetched, from_cache, fetch_pc>>
        /\ UNCHANGED <<srVars, cagrVars, valVars, pageVars>>

NextFetch == CallGetStockData \/ CallGetStockDataCached \/ CacheExpire

SpecFetch == InitFetch /\ [][NextFetch]_vars

(***************************************************************************)
(* Properties of get_stock_data, checked under SpecFetch.                  *)
(***************************************************************************)
FreshFetch == fetch_pc = "done" /\ ~from_cache

\* C9: the three fetches tolerate failure independently: a failed fetch gives
\* that fetch's empty/default value only and leaves what the fetches that
\* succeeded returned unchanged; in particular a failed income-statement fetch
\* does not discard a fetched fundamentals record.
C9_FetchesFailIndependently ==
    FreshFetch =>
        /\ ~provider.history_fails => fetched.hist = SomeHist(provider.hist)
        /\ ~provider.info_fails => fetched.info = SomeInfo(provider.info)
        /\ ~provider.income_fails => fetched.financials = provider.financials

(***************************************************************************)
(* SpecVal: the valuation block for every slider-reachable pair of rates   *)
(* and every bounded growth and EPS input.                                 *)
(***************************************************************************)
InitVal ==
    /\ user_growth \in GrowthInputs
    /\ user_eps \in EpsInputs
    /\ user_discount_rate \in DiscountRates
    /\ user_terminal_growth \in TerminalGrowths
    /\ pe_scenarios = <<>>
    /\ target_price = <<>>
    /\ dcf_value = [raised |-> FALSE, value |-> 0]
    /\ avg_fair = 0
    /\ val_pc = "call"
    /\ IdleSR
    /\ IdleCagr
    /\ IdleFetch
    /\ IdlePage

Valuate ==
    /\ val_pc = "call"
    /\ ValuationBlock(user_growth, user_eps, user_discount_rate, user_terminal_growth)
    /\ val_pc' = "done"
    /\ UNCHANGED valInputs
    /\ UNCHANGED <<srVars, cagrVars, fetchVars, pageVars>>

NextVal == Valuate

SpecVal == InitVal /\ [][NextVal]_vars

(***************************************************************************)
(* Properties of the valuation block, checked under SpecVal.               *)
(***************************************************************************)
ValDone == val_pc = "done"

\* C5: for every input with discountRate <= terminalGrowth the DCF raises;
\* it returns no intrinsic value that is displayed and averaged into the
\* combined reference price.
C5_DcfRaisesWhenRateNotAboveGrowth ==
    (ValDone /\ user_discount_rate <= user_terminal_growth) =>
        /\ dcf_value.raised
        /\ target_price = <<>>
        /\ avg_fair = 0

C5_Witness ==
    /\ ValDone
    /\ user_discount_rate = user_terminal_growth
    /\ user_eps > 0
    /\ dcf_value.raised

C10_ScenariosOrdered ==
    ValDone =>
        /\ pe_scenarios["Bear"] <= pe_scenarios["Base"]
        /\ pe_scenarios["Base"] <= pe_scenarios["Bull"]
        /\ (user_eps > 0 /\ ~dcf_value.raised) =>
              /\ target_price["Bear"] <= target_price["Base"]
              /\ target_price["Base"] <= target_price["Bull"]

(***************************************************************************)
(* Spec: one run of the page script.  The sidebar reads the widgets, then  *)
(* the script fetches, prepares the base data, runs the valuation block    *)
(* and draws the price levels; an exception no handler catches ends the    *)
(* run at "crashed".                                                       *)
(***************************************************************************)
Init ==
    /\ IdleSR
    /\ IdleCagr
    /\ IdleFetch
    /\ IdleVal
    /\ ticker = ""
    /\ hist = NoneHist
    /\ info = NoneInfo
    /\ curr_price = 0
    /\ prev_close = 0
    /\ cagr_data = DefaultMetrics
    /\ analyst_growth = 0
    /\ default_growth = 0
    /\ sr_data = <<>>
    /\ supports = <<>>
    /\ resistances = <<>>
    /\ exc = "none"
    /\ page_pc = "sidebar"

\* lines 136-146: the widgets' values; an empty ticker ends the script
Sidebar ==
    /\ page_pc = "sidebar"
    /\ ticker' \in Tickers
    /\ user_discount_rate' \in DiscountRates
    /\ user_terminal_growth' \in TerminalGrowths
    /\ page_pc' = IF ticker' = "" THEN "blank" ELSE "fetch"
    /\ UNCHANGED <<user_growth, user_eps, valOutputs, val_pc>>
    /\ UNCHANGED <<hist, info, curr_price, prev_close, cagr_data, analyst_growth,
                   default_growth, sr_data, supports, resistances, exc>>
    /\ UNCHANGED <<srVars, cagrVars, fetchVars>>

\* lines 147-148: hist, info, financials = get_stock_data(ticker)
FetchData ==
    /\ page_pc = "fetch"
    /\ \E p \in Providers :
         LET r == get_stock_data(p) IN
         /\ hist' = r.hist
         /\ info' = r.info
         /\ financials' = r.financials
    /\ page_pc' = "fetched"
    /\ UNCHANGED <<metrics, cagr_pc>>
    /\ UNCHANGED <<ticker, curr_price, prev_close, cagr_data, analyst_growth,
                   default_growth, sr_data, supports, resistances, exc>>
    /\ UNCHANGED <<srVars, fetchVars, valVars>>

HasData == ~hist.none /\ hist.bars # <<>>

\* lines 350-351: st.error(...)
ShowError ==
    /\ page_pc = "fetched"
    /\ ~HasData
    /\ page_pc' = "error_shown"
    /\ UNCHANGED <<ticker, hist, info, curr_price, prev_close, cagr_data, analyst_growth,
                   default_growth, sr_data, supports, resistances, exc>>
    /\ UNCHANGED <<srVars, cagrVars, fetchVars, valVars>>

\* lines 152-189.  hist['Close'].iloc[-2] raises IndexError on a one-row history.
Prepare ==
    /\ page_pc = "fetched"
    /\ HasData
    /\ LET n == Len(hist.bars) IN
       IF n < 2
       THEN /\ curr_price' = hist.bars[n].Close
            /\ exc' = "IndexError"
            /\ page_pc' = "crashed"
            /\ UNCHANGED <<prev_close, cagr_data, analyst_growth, default_growth>>
       ELSE /\ curr_price' = hist.bars[n].Close
            /\ prev_close' = hist.bars[n-1].Close
            /\ cagr_data' = calculate_historical_cagr(financials)
            /\ analyst_growth' = AnalystGrowth(info.fields)
            /\ default_growth' =
                  DefaultGrowth(AnalystGrowth(info.fields),
                                calculate_historical_cagr(financials).eps_cagr)
            /\ page_pc' = "valuation"
            /\ UNCHANGED exc
    /\ UNCHANGED <<ticker, hist, info, sr_data, supports, resistances>>
    /\ UNCHANGED <<srVars, cagrVars, fetchVars, valVars>>

\* lines 199-279: the two number inputs, then the valuation block
ValuatePage ==
    /\ page_pc = "valuation"
    /\ user_growth' \in {default_growth} \cup GrowthOverrides
    /\ user_eps' \in {DefaultEps(info.fields)} \cup EpsOverrides
    /\ ValuationBlock(user_growth', user_eps', user_discount_rate, user_terminal_growth)
    /\ IF dcf_value'.raised
       THEN exc' = "ZeroDivisionError" /\ page_pc' = "crashed"
       ELSE exc' = exc /\ page_pc' = "levels"
    /\ UNCHANGED <<user_discount_rate, user_terminal_growth, val_pc>>
    /\ UNCHANGED <<ticker, hist, info, curr_price, prev_close, cagr_data, analyst_growth,
                   default_growth, sr_data, supports, resistances>>
    /\ UNCHANGED <<srVars, cagrVars, fetchVars>>

\* lines 286-348
RenderLevels ==
    /\ page_pc = "levels"
    /\ sr_data' = calculate_sr_levels(hist.bars, DefaultSensitivityPct)
    /\ supports' = Supports(sr_data', curr_price)
    /\ resistances' = Resistances(sr_data', curr_price)
    /\ page_pc' = "rendered"
    /\ UNCHANGED <<ticker, hist, info, curr_price, prev_close, cagr_data, analyst_growth,
                   default_growth, exc>>
    /\ UNCHANGED <<srVars, cagrVars, fetchVars, valVars>>

Next == Sidebar \/ FetchData \/ ShowError \/ Prepare \/ ValuatePage \/ RenderLevels

Spec == Init /\ [][Next]_vars

(***************************************************************************)
(* Properties of the page script, checked under Spec.                      *)
(***************************************************************************)
\* C8: no failure is fatal to a page render: whatever the fetch returned and
\* whatever the sliders hold, the run ends in the error message or in a
\* rendered page, and no exception escapes the script.
C8_NoExceptionEscapes ==
    /\ exc = "none"
    /\ page_pc # "crashed"

====
